---- MODULE Spec2Model ----
(***************************************************************************)
(* Model of the MAIOS L3 execution engine:                                 *)
(*   app/services/store.py         ExecutionStore (dict + asyncio.Lock)    *)
(*   app/services/orchestrator.py  OrchestrationService (execute, runner)  *)
(*   app/routers/orchestration.py  the HTTP handlers that call them        *)
(*                                                                         *)
(* Everything runs on one asyncio event loop.  A coroutine that has the    *)
(* loop (cpu) keeps it until it suspends or returns; the only awaits that  *)
(* suspend are asyncio.sleep (orchestrator.py:160) and an acquire of a     *)
(* held asyncio.Lock.  ExecutionStatus objects live on a heap and the      *)
(* store, the runner and a caller of get hold REFERENCES to them.          *)
(***************************************************************************)
EXTENDS Integers, Sequences, FiniteSets, TLC

\* ------------------------------------------------------------------ bounds
MaxExec == 2        \* number of execute calls (and of objects / identifiers)
MaxPollers == 1     \* number of concurrent get_status callers

\* --------------------------------------------------------------- constants
steps == 5          \* orchestrator.py:156

Objs == 1..MaxExec          \* heap references of ExecutionStatus objects
IDs == 1..MaxExec           \* the values uuid4().hex[:12] can take
Pollers == 1..MaxPollers
NoRef == 0                  \* Python None where a reference is expected
NoCpu == <<>>               \* the event loop is between callbacks

\* orchestrator.py:34-72
_get_rfx_tasks ==
  << [task_id |-> "parse_document", task_type |-> "document.parse",
      description |-> "Parse and structure the document",
      duration_ms |-> 2000, tokens |-> 0],
     [task_id |-> "extract_requirements", task_type |-> "analysis.extract",
      description |-> "Extract requirements from document",
      duration_ms |-> 5000, tokens |-> 4200],
     [task_id |-> "extract_eval_criteria", task_type |-> "analysis.extract",
      description |-> "Extract evaluation criteria",
      duration_ms |-> 4000, tokens |-> 2100],
     [task_id |-> "compliance_mapping", task_type |-> "analysis.mapping",
      description |-> "Map requirements to compliance standards",
      duration_ms |-> 6000, tokens |-> 3500],
     [task_id |-> "generate_matrix", task_type |-> "document.generate",
      description |-> "Generate compliance matrix",
      duration_ms |-> 3000, tokens |-> 1500] >>

TaskTypes == {"rfx_analysis", "other"}

\* mutant: a task type without a workflow of its own gets no tasks
ResolveTasks_unknownEmpty(task_type) ==
  IF task_type = "rfx_analysis" THEN _get_rfx_tasks ELSE <<>>

\* orchestrator.py:83-86 : the task list of a request's task_type
ResolveTasks(task_type) ==
  IF task_type = "rfx_analysis" THEN _get_rfx_tasks ELSE _get_rfx_tasks

\* the list _run_execution is given (orchestrator.py:112, 120): both
\* branches at 83-86 give the same one
task_defs == _get_rfx_tasks

VARIABLES
  heap,         \* sequence of ExecutionStatus objects; a reference is an index
  executions,   \* ExecutionStore._executions : id -> reference (NoRef: absent)
  lock,         \* ExecutionStore._lock : NoCpu or the coroutine holding it
  cpu,          \* the coroutine the event loop is running, or NoCpu
  xpc,          \* position of each execute call
  run,          \* locals and position of each _run_execution coroutine
  poll,         \* position and local of each get_status handler
  held,         \* what an in-process caller of get keeps: reference + copy
  del,          \* position of the caller of ExecutionStore.delete
  committed,    \* history: the value of the record passed to the last
                \* completed create/update for each id
  listing       \* position, arguments and result of the list_executions
                \* handler

vars == <<heap, executions, lock, cpu, xpc, run, poll, held, del, committed,
          listing>>

\* -------------------------------------------------------------- data model
\* models/execution.py:16-21
QUEUED == "queued"
RUNNING == "running"
COMPLETED == "completed"
PARTIAL == "partial"
FAILED == "failed"
\* models/execution.py:8-13
PENDING == "pending"
SKIPPED == "skipped"

Terminal == {COMPLETED, PARTIAL, FAILED}
NoTask == "None"            \* current_task is None

\* orchestrator.py:89-98 : one TaskStatus per task definition
NewTasks(defs) ==
  [k \in 1..Len(defs) |->
     [task_id |-> defs[k].task_id,
      task_type |-> defs[k].task_type,
      description |-> defs[k].description,
      status |-> PENDING,
      progress |-> 0,
      started_at |-> FALSE,
      completed_at |-> FALSE,
      error |-> FALSE]]

\* orchestrator.py:100-107 (defaults from models/execution.py:95-116);
\* timestamps other than created_at are modelled as "is set", a message as
\* the tuple of its parts
NewExecution(id, now, defs) ==
  [execution_id |-> id,
   status |-> QUEUED,
   created_at |-> now,
   started_at |-> FALSE,
   completed_at |-> FALSE,
   tasks |-> NewTasks(defs),
   current_task |-> NoTask,
   overall_progress |-> 0,
   message |-> <<"Execution queued">>,
   summary |-> <<>>,
   artifacts |-> <<>>,
   errors |-> <<>>]

\* first position of the task with this task_id (the for/if/break loops at
\* orchestrator.py:144-149, 163-166, 175-180); 0 when there is none
FindTask(tasks, task_id) ==
  IF \E k \in 1..Len(tasks) : tasks[k].task_id = task_id
    THEN CHOOSE k \in 1..Len(tasks) :
           /\ tasks[k].task_id = task_id
           /\ \A j \in 1..(k-1) : tasks[j].task_id # task_id
    ELSE 0

\* mutant: the runner forgets to set the status
StartExecution_noStatus(e) ==
  [e EXCEPT !.started_at = TRUE, !.message = <<"Execution started">>]

\* mutant: the start time is written to created_at
StartExecution_setsCreatedAt(e) ==
  [e EXCEPT !.status = RUNNING, !.created_at = @ + 1,
            !.message = <<"Execution started">>]

\* orchestrator.py:127-129
StartExecution(e) ==
  [e EXCEPT !.status = RUNNING, !.started_at = TRUE,
            !.message = <<"Execution started">>]

\* mutant: the task list is walked from its end
BeginTask_lastFirst(e, i) ==
  LET d == task_defs[Len(task_defs) - i]
      k == FindTask(e.tasks, d.task_id)
      e1 == [e EXCEPT !.current_task = d.task_id]
      e2 == IF k = 0 THEN e1
            ELSE [e1 EXCEPT !.tasks[k].status = RUNNING,
                            !.tasks[k].started_at = TRUE,
                            !.tasks[k].progress = 0]
  IN [e2 EXCEPT !.message = <<"Running: ", d.description>>]

\* orchestrator.py:138-151, i is the 0-based enumerate index
BeginTask(e, i) ==
  LET d == task_defs[i + 1]
      k == FindTask(e.tasks, d.task_id)
      e1 == [e EXCEPT !.current_task = d.task_id]
      e2 == IF k = 0 THEN e1
            ELSE [e1 EXCEPT !.tasks[k].status = RUNNING,
                            !.tasks[k].started_at = TRUE,
                            !.tasks[k].progress = 0]
  IN [e2 EXCEPT !.message = <<"Running: ", d.description>>]

\* mutant: the step count is taken twice, progress moves by half steps
TaskProgressAt_halfSteps(step) == ((step + 1) * 100) \div (2 * steps)

\* orchestrator.py:165 : int((step + 1) / steps * 100), exact for steps = 5
TaskProgressAt(step) == ((step + 1) * 100) \div steps

\* mutant: the share of the tasks already completed is left out
OverallProgressAt_currentOnly(i, step) ==
  TaskProgressAt(step) \div Len(task_defs)

\* mutant: the position of the task is counted from one
OverallProgressAt_oneBased(i, step) ==
  (((i + 1) * 100) + TaskProgressAt(step)) \div Len(task_defs)

\* orchestrator.py:169-171 : int(((i*100) + (step+1)/steps*100) / len(task_defs))
OverallProgressAt(i, step) ==
  ((i * 100) + TaskProgressAt(step)) \div Len(task_defs)

\* orchestrator.py:162-171
AdvanceStep(e, i, step) ==
  LET k == FindTask(e.tasks, task_defs[i + 1].task_id)
      e1 == IF k = 0 THEN e
            ELSE [e EXCEPT !.tasks[k].progress = TaskProgressAt(step)]
  IN [e1 EXCEPT !.overall_progress = OverallProgressAt(i, step)]

\* orchestrator.py:211-245 : two artifacts, content is opaque
_generate_artifacts ==
  << [artifact_type |-> "markdown", filename |-> "compliance_matrix.md",
      mime_type |-> "text/markdown", produced_by |-> "generate_matrix"],
     [artifact_type |-> "markdown", filename |-> "executive_summary.md",
      mime_type |-> "text/markdown", produced_by |-> "extract_requirements"] >>

\* mutant: the status of the finished task is not changed
CompleteTask_keepsRunning(e, i) ==
  LET k == FindTask(e.tasks, task_defs[i + 1].task_id)
  IN IF k = 0 THEN e
     ELSE [e EXCEPT !.tasks[k].completed_at = TRUE,
                    !.tasks[k].progress = 100]

\* mutant: the artifacts are attached as the last task completes, one
\* update before the status turns terminal
CompleteTask_attachesArtifacts(e, i) ==
  LET k == FindTask(e.tasks, task_defs[i + 1].task_id)
      e1 == IF k = 0 THEN e
            ELSE [e EXCEPT !.tasks[k].status = COMPLETED,
                           !.tasks[k].completed_at = TRUE,
                           !.tasks[k].progress = 100]
  IN IF i + 1 = Len(task_defs)
       THEN [e1 EXCEPT !.artifacts = _generate_artifacts]
       ELSE e1

\* mutant: a task that used no tokens is marked Failed with an error
CompleteTask_failsIdle(e, i) ==
  LET k == FindTask(e.tasks, task_defs[i + 1].task_id)
  IN IF k = 0 THEN e
     ELSE IF task_defs[i + 1].tokens = 0
       THEN [e EXCEPT !.tasks[k].status = FAILED,
                      !.tasks[k].completed_at = TRUE,
                      !.tasks[k].error = TRUE]
       ELSE [e EXCEPT !.tasks[k].status = COMPLETED,
                      !.tasks[k].completed_at = TRUE,
                      !.tasks[k].progress = 100]

\* orchestrator.py:174-180
CompleteTask(e, i) ==
  LET k == FindTask(e.tasks, task_defs[i + 1].task_id)
  IN IF k = 0 THEN e
     ELSE [e EXCEPT !.tasks[k].status = COMPLETED,
                    !.tasks[k].completed_at = TRUE,
                    !.tasks[k].progress = 100]

\* orchestrator.py:186-201 (total_duration_ms is wall-clock and left out;
\* estimated_cost is total_tokens in units of 0.00001)
AttachResults(e, r) ==
  [e EXCEPT !.artifacts = _generate_artifacts,
            !.summary = << [tasks_total |-> Len(task_defs),
                            tasks_completed |-> r.completed_count,
                            tasks_failed |-> r.failed_count,
                            total_tokens |-> r.total_tokens,
                            estimated_cost |-> r.total_tokens] >>]

\* mutant: the name of the last task is left in current_task
FinishExecution_keepsCurrentTask(e) ==
  [e EXCEPT !.status = COMPLETED, !.completed_at = TRUE,
            !.overall_progress = 100,
            !.message = <<"Execution completed successfully">>]

\* orchestrator.py:203-208
FinishExecution(e) ==
  [e EXCEPT !.status = COMPLETED, !.completed_at = TRUE,
            !.current_task = NoTask, !.overall_progress = 100,
            !.message = <<"Execution completed successfully">>]

\* ------------------------------------------------------------------- store
\* mutant: a record that has not started is reported as absent
StoreGet_hidesQueued(id) ==
  IF executions[id] # NoRef /\ heap[executions[id]].status = QUEUED
    THEN NoRef
    ELSE executions[id]

\* store.py:27-29 : the stored reference itself, or None
StoreGet(id) == executions[id]

\* what a serialisation of get_status(id) shows right now
Read(id) == heap[executions[id]]
Present(id) == executions[id] # NoRef

\* mutant: the acquire only yields to the event loop and excludes no one
LockAcquire_yieldOnly(c) == lock' = lock /\ cpu' = NoCpu

\* `async with self._lock` (store.py:23, 33, 58): asyncio.Lock.acquire takes
\* a free lock without suspending, so the caller has the loop afterwards
LockAcquire(c) == lock = NoCpu /\ lock' = c /\ cpu' = c
LockRelease(c) == lock = c /\ lock' = NoCpu

\* store.py:24 and store.py:34 : self._executions[execution.execution_id] = execution
StorePut(ref) ==
  /\ executions' = [executions EXCEPT ![heap[ref].execution_id] = ref]
  /\ committed' = [committed EXCEPT ![heap[ref].execution_id] = <<heap[ref]>>]

\* ------------------------------------------------------------- coroutines
ExecCo(o) == <<"execute", o>>
RunCo(o) == <<"run", o>>
PollCo(p) == <<"poll", p>>
DelCo == <<"delete", 0>>

\* generated is history: the number of calls of _generate_artifacts so far
NoRun == [pc |-> "none", execution_id |-> 0, execution |-> NoRef,
          i |-> 0, step |-> 0, in_lock |-> FALSE,
          total_tokens |-> 0, completed_count |-> 0, failed_count |-> 0,
          generated |-> 0]
NoPoll == [pc |-> "idle", id |-> 0, result |-> NoRef]
NoListing == [pc |-> "idle", status |-> "None", limit |-> 0,
              result |-> <<>>]

Init ==
  /\ heap = <<>>
  /\ executions = [id \in IDs |-> NoRef]
  /\ lock = NoCpu
  /\ cpu = NoCpu
  /\ xpc = [o \in Objs |-> "new"]
  /\ run = [o \in Objs |-> NoRun]
  /\ poll = [p \in Pollers |-> NoPoll]
  /\ held = [p \in Pollers |-> <<>>]
  /\ del = [pc |-> "idle", id |-> 0]
  /\ committed = [id \in IDs |-> <<>>]
  /\ listing = NoListing

\* uuid4().hex[:12] (orchestrator.py:80) taken as collision free: an
\* identifier no earlier execute call got
FreshIds == {id \in IDs : \A o \in 1..Len(heap) : heap[o].execution_id # id}
NewId == CHOOSE id \in FreshIds : \A j \in FreshIds : id <= j

\* ---- OrchestrationService.execute, called by the POST /execute handler
\* orchestrator.py:80-107 : pick the id, build the tasks and the execution
ExecuteBuild(o, id, task_type) ==
  /\ cpu = NoCpu
  /\ o = Len(heap) + 1
  /\ o <= MaxExec
  /\ xpc[o] = "new"
  /\ heap' = Append(heap, NewExecution(id, o, ResolveTasks(task_type)))
  /\ xpc' = [xpc EXCEPT ![o] = "create"]
  /\ cpu' = ExecCo(o)
  /\ UNCHANGED <<executions, lock, run, poll, held, del, committed, listing>>

\* orchestrator.py:109 -> store.py:23
CreateEnter(o) ==
  /\ cpu = ExecCo(o)
  /\ xpc[o] = "create"
  /\ LockAcquire(ExecCo(o))
  /\ xpc' = [xpc EXCEPT ![o] = "create_locked"]
  /\ UNCHANGED <<heap, executions, run, poll, held, del, committed, listing>>

\* store.py:24-25
CreateWrite(o) ==
  /\ cpu = ExecCo(o)
  /\ xpc[o] = "create_locked"
  /\ StorePut(o)
  /\ LockRelease(ExecCo(o))
  /\ xpc' = [xpc EXCEPT ![o] = "spawn"]
  /\ UNCHANGED <<heap, cpu, run, poll, held, del, listing>>

\* mutant: every runner is given the identifier of the first execution
ExecuteSpawn_firstId(o) ==
  /\ cpu = ExecCo(o)
  /\ xpc[o] = "spawn"
  /\ run' = [run EXCEPT ![o] = [NoRun EXCEPT !.pc = "ready",
                                   !.execution_id = heap[1].execution_id]]
  /\ xpc' = [xpc EXCEPT ![o] = "returned"]
  /\ cpu' = NoCpu
  /\ UNCHANGED <<heap, executions, lock, poll, held, del, committed, listing>>

\* orchestrator.py:112-114 and routers/orchestration.py:36-41 : create_task
\* schedules the runner, the handler returns
ExecuteSpawn(o) ==
  /\ cpu = ExecCo(o)
  /\ xpc[o] = "spawn"
  /\ run' = [run EXCEPT ![o] = [NoRun EXCEPT !.pc = "ready",
                                   !.execution_id = heap[o].execution_id]]
  /\ xpc' = [xpc EXCEPT ![o] = "returned"]
  /\ cpu' = NoCpu
  /\ UNCHANGED <<heap, executions, lock, poll, held, del, committed, listing>>

\* ---- OrchestrationService._run_execution, one coroutine per execute call
\* A runner is observed where it can be interleaved or is inside the store:
\* scheduled ("ready"), suspended in asyncio.sleep ("sleeping"), inside the
\* write section of one of its updates (in_lock), just back from that
\* update, and returned ("done").  The statements between two such points
\* run without suspension and are one action.

\* the five `await self.store.update(execution)` of the runner
\* (orchestrator.py:130, 152, 172, 184, 209)
UpdateSites ==
  {"update_start", "update_begin", "update_step", "update_complete",
   "update_final"}

\* mutant: the step loop starts over instead of ending
AfterLoopUpdate_stepsForever(r) ==
  CASE r.pc = "update_start" -> [r EXCEPT !.pc = "begin_task", !.i = 0]
    [] r.pc = "update_begin" -> [r EXCEPT !.pc = "sleep", !.step = 0]
    [] r.pc = "update_step" ->
         [r EXCEPT !.pc = "sleep", !.step = (@ + 1) % steps]
    [] r.pc = "update_complete" -> [r EXCEPT !.pc = "generate"]

\* mutant: the code after the task loop is run inside it, after each task
AfterLoopUpdate_generatesInLoop(r) ==
  CASE r.pc = "update_start" -> [r EXCEPT !.pc = "begin_task", !.i = 0]
    [] r.pc = "update_begin" -> [r EXCEPT !.pc = "sleep", !.step = 0]
    [] r.pc = "update_step" ->
         IF r.step + 1 < steps THEN [r EXCEPT !.pc = "sleep", !.step = @ + 1]
         ELSE [r EXCEPT !.pc = "complete_task"]
    [] r.pc = "update_complete" -> [r EXCEPT !.pc = "generate"]

\* what the runner does next after an update inside or before the loops:
\* the loop heads at orchestrator.py:137 and 159 and the code after each loop
AfterLoopUpdate(r) ==
  CASE r.pc = "update_start" ->
         IF Len(task_defs) > 0 THEN [r EXCEPT !.pc = "begin_task", !.i = 0]
         ELSE [r EXCEPT !.pc = "generate"]
    [] r.pc = "update_begin" -> [r EXCEPT !.pc = "sleep", !.step = 0]
    [] r.pc = "update_step" ->
         IF r.step + 1 < steps THEN [r EXCEPT !.pc = "sleep", !.step = @ + 1]
         ELSE [r EXCEPT !.pc = "complete_task"]
    [] r.pc = "update_complete" ->
         IF r.i + 1 < Len(task_defs)
           THEN [r EXCEPT !.pc = "begin_task", !.i = @ + 1]
           ELSE [r EXCEPT !.pc = "generate"]

\* mutant: the runner starts the task loop over after its last update
AfterUpdate_restart(r) ==
  IF r.pc = "update_final" THEN [r EXCEPT !.pc = "begin_task", !.i = 0]
  ELSE AfterLoopUpdate(r)

\* what the runner does next after an update returns; the update at
\* orchestrator.py:209 is its last statement
AfterUpdate(r) ==
  IF r.pc = "update_final" THEN [r EXCEPT !.pc = "return"]
  ELSE AfterLoopUpdate(r)

\* the runner o is back from an update and its next statement is `label`
Resumes(o, label) ==
  /\ cpu = RunCo(o)
  /\ run[o].pc \in UpdateSites
  /\ ~run[o].in_lock
  /\ AfterUpdate(run[o]).pc = label

\* orchestrator.py:123-130 -> store.py:33 : the first callback of the
\* scheduled task fetches the record, marks it Running and enters update
RunStart(o) ==
  /\ cpu = NoCpu
  /\ run[o].pc = "ready"
  /\ LET ref == StoreGet(run[o].execution_id)
     IN IF ref = NoRef
          THEN /\ run' = [run EXCEPT ![o].pc = "done"]
               /\ UNCHANGED <<heap, lock, cpu>>
          ELSE /\ heap' = [heap EXCEPT ![ref] = StartExecution(@)]
               /\ run' = [run EXCEPT ![o].pc = "update_start",
                                     ![o].execution = ref,
                                     ![o].in_lock = TRUE]
               /\ LockAcquire(RunCo(o))
  /\ UNCHANGED <<executions, xpc, poll, held, del, committed, listing>>

\* store.py:34-35 : the write section of an update of the runner
UpdateWrite(o) ==
  /\ cpu = RunCo(o)
  /\ run[o].pc \in UpdateSites
  /\ run[o].in_lock
  /\ StorePut(run[o].execution)
  /\ LockRelease(RunCo(o))
  /\ run' = [run EXCEPT ![o].in_lock = FALSE]
  /\ UNCHANGED <<heap, cpu, xpc, poll, held, del, listing>>

\* store.py:33-35 raises inside an update of the runner: `async with`
\* releases the lock, and the exception leaves _run_execution, which has no
\* try/except (orchestrator.py:116-209), so the task ends there
UpdateFail(o) ==
  /\ cpu = RunCo(o)
  /\ run[o].pc \in UpdateSites
  /\ run[o].in_lock
  /\ LockRelease(RunCo(o))
  /\ run' = [run EXCEPT ![o].pc = "raised", ![o].in_lock = FALSE]
  /\ cpu' = NoCpu
  /\ UNCHANGED <<heap, executions, xpc, poll, held, del, committed, listing>>

\* orchestrator.py:137-152 -> store.py:33
RunBeginTask(o) ==
  /\ Resumes(o, "begin_task")
  /\ LET r == AfterUpdate(run[o])
     IN /\ heap' = [heap EXCEPT ![r.execution] = BeginTask(@, r.i)]
        /\ run' = [run EXCEPT ![o] = [r EXCEPT !.pc = "update_begin",
                                               !.in_lock = TRUE]]
  /\ LockAcquire(RunCo(o))
  /\ UNCHANGED <<executions, xpc, poll, held, del, committed, listing>>

\* mutant: the step is recorded on the object before the sleep
RunSleep_afterRecording(o) ==
  /\ Resumes(o, "sleep")
  /\ LET r == AfterUpdate(run[o])
     IN /\ heap' = [heap EXCEPT ![r.execution] = AdvanceStep(@, r.i, r.step)]
        /\ run' = [run EXCEPT ![o] = [r EXCEPT !.pc = "sleeping"]]
  /\ cpu' = NoCpu
  /\ UNCHANGED <<executions, lock, xpc, poll, held, del, committed, listing>>

\* orchestrator.py:155-160 : step_duration > 0, asyncio.sleep suspends
RunSleep(o) ==
  /\ Resumes(o, "sleep")
  /\ run' = [run EXCEPT ![o] = [AfterUpdate(@) EXCEPT !.pc = "sleeping"]]
  /\ cpu' = NoCpu
  /\ UNCHANGED <<heap, executions, lock, xpc, poll, held, del, committed, listing>>

\* orchestrator.py:160-172 -> store.py:33 : the timer fires, the runner
\* resumes, records the step and enters update
RunStep(o) ==
  /\ cpu = NoCpu
  /\ run[o].pc = "sleeping"
  /\ heap' = [heap EXCEPT ![run[o].execution] =
                AdvanceStep(@, run[o].i, run[o].step)]
  /\ run' = [run EXCEPT ![o].pc = "update_step", ![o].in_lock = TRUE]
  /\ LockAcquire(RunCo(o))
  /\ UNCHANGED <<executions, xpc, poll, held, del, committed, listing>>

\* orchestrator.py:174-184 -> store.py:33
RunCompleteTask(o) ==
  /\ Resumes(o, "complete_task")
  /\ LET r == AfterUpdate(run[o])
     IN /\ heap' = [heap EXCEPT ![r.execution] = CompleteTask(@, r.i)]
        /\ run' = [run EXCEPT ![o] =
                     [r EXCEPT !.pc = "update_complete",
                               !.in_lock = TRUE,
                               !.total_tokens = @ + task_defs[r.i + 1].tokens,
                               !.completed_count = @ + 1]]
  /\ LockAcquire(RunCo(o))
  /\ UNCHANGED <<executions, xpc, poll, held, del, committed, listing>>

\* orchestrator.py:186-209 -> store.py:33
RunFinish(o) ==
  /\ Resumes(o, "generate")
  /\ LET r == AfterUpdate(run[o])
     IN /\ heap' = [heap EXCEPT ![r.execution] =
                      FinishExecution(AttachResults(@, r))]
        /\ run' = [run EXCEPT ![o] = [r EXCEPT !.pc = "update_final",
                                               !.in_lock = TRUE,
                                               !.generated = @ + 1]]
  /\ LockAcquire(RunCo(o))
  /\ UNCHANGED <<executions, xpc, poll, held, del, committed, listing>>

\* orchestrator.py:209 : the last update has returned, the coroutine ends
RunReturn(o) ==
  /\ Resumes(o, "return")
  /\ run' = [run EXCEPT ![o].pc = "done"]
  /\ cpu' = NoCpu
  /\ UNCHANGED <<heap, executions, lock, xpc, poll, held, del, committed, listing>>

Runner(o) ==
  \/ RunStart(o) \/ UpdateWrite(o) \/ RunBeginTask(o) \/ RunSleep(o)
  \/ RunStep(o) \/ RunCompleteTask(o) \/ RunFinish(o) \/ RunReturn(o)

\* ---- GET /status/{execution_id}
\* routers/orchestration.py:61 -> orchestrator.py:343-345 -> store.py:27-29
GetStatus(p, id) ==
  /\ cpu = NoCpu
  /\ poll[p].pc = "idle"
  /\ poll' = [poll EXCEPT ![p] = [pc |-> "got", id |-> id,
                                  result |-> StoreGet(id)]]
  /\ cpu' = PollCo(p)
  /\ UNCHANGED <<heap, executions, lock, xpc, run, held, del, committed, listing>>

\* routers/orchestration.py:63-69 : 404 or the record, serialised as the
\* handler returns
StatusReturn(p) ==
  /\ cpu = PollCo(p)
  /\ poll[p].pc = "got"
  /\ poll' = [poll EXCEPT ![p] = NoPoll]
  /\ cpu' = NoCpu
  /\ UNCHANGED <<heap, executions, lock, xpc, run, held, del, committed, listing>>

\* an in-process caller of OrchestrationService.get_status keeps the first
\* record it gets (orchestrator.py:343-345); snap is its value at that time
KeepResult(p) ==
  /\ cpu = PollCo(p)
  /\ poll[p].pc = "got"
  /\ poll[p].result # NoRef
  /\ held[p] = <<>>
  /\ held' = [held EXCEPT ![p] = << [ref |-> poll[p].result,
                                     snap |-> heap[poll[p].result]] >>]
  /\ poll' = [poll EXCEPT ![p] = NoPoll]
  /\ cpu' = NoCpu
  /\ UNCHANGED <<heap, executions, lock, xpc, run, del, committed, listing>>

\* ---- ExecutionStore.delete, store.py:56-62 (no caller in the repository)
DeleteEnter(id) ==
  /\ cpu = NoCpu
  /\ del.pc = "idle"
  /\ LockAcquire(DelCo)
  /\ del' = [pc |-> "locked", id |-> id]
  /\ UNCHANGED <<heap, executions, xpc, run, poll, held, committed, listing>>

DeleteWrite ==
  /\ cpu = DelCo
  /\ del.pc = "locked"
  /\ executions' = [executions EXCEPT ![del.id] = NoRef]
  /\ committed' = [committed EXCEPT ![del.id] = <<>>]
  /\ LockRelease(DelCo)
  /\ del' = [pc |-> "idle", id |-> 0]
  /\ cpu' = NoCpu
  /\ UNCHANGED <<heap, xpc, run, poll, held, listing>>

\* ---- GET /executions
ListCo == <<"list", 0>>
NoStatus == "None"          \* the status filter is None
MaxLimit == 100             \* routers/orchestration.py:75, le=100
\* routers/orchestration.py:74-75 : the values of the query parameters
StatusFilters == {NoStatus, QUEUED, RUNNING, COMPLETED, PARTIAL, FAILED}
Limits == 1..MaxLimit

\* store.py:46 : list(self._executions.values()); a dict keeps its keys in
\* insertion order, which is the order of the identifiers here
RECURSIVE ValuesFrom(_)
ValuesFrom(id) ==
  IF id > MaxExec THEN <<>>
  ELSE (IF Present(id) THEN <<executions[id]>> ELSE <<>>)
         \o ValuesFrom(id + 1)

\* store.py:48-49 : `if status:` is true for every member of the enum
FilterStatus(results, status) ==
  IF status # NoStatus
    THEN SelectSeq(results, LAMBDA r : heap[r].status = status)
    ELSE results

\* mutant: reverse=True is left out, the oldest record comes first
InsertByCreatedAt_ascending(sorted, r) ==
  LET n == Cardinality({k \in 1..Len(sorted) :
                          heap[sorted[k]].created_at <= heap[r].created_at})
  IN SubSeq(sorted, 1, n) \o <<r>> \o SubSeq(sorted, n + 1, Len(sorted))

\* where list.sort(reverse=True) puts r among the records sorted so far:
\* after every record that is as new or newer (the sort is stable)
InsertByCreatedAt(sorted, r) ==
  LET n == Cardinality({k \in 1..Len(sorted) :
                          heap[sorted[k]].created_at >= heap[r].created_at})
  IN SubSeq(sorted, 1, n) \o <<r>> \o SubSeq(sorted, n + 1, Len(sorted))

\* store.py:52 : results.sort(key=lambda x: x.created_at, reverse=True)
RECURSIVE SortByCreatedAt(_)
SortByCreatedAt(results) ==
  IF results = <<>> THEN <<>>
  ELSE InsertByCreatedAt(SortByCreatedAt(SubSeq(results, 1, Len(results) - 1)),
                         results[Len(results)])

\* store.py:54 : results[:limit], for a limit that is not negative
Slice(results, limit) ==
  SubSeq(results, 1, IF limit < Len(results) THEN limit ELSE Len(results))

\* store.py:37-54 (user_id is not looked at)
list_all(status, limit) ==
  Slice(SortByCreatedAt(FilterStatus(ValuesFrom(1), status)), limit)

\* routers/orchestration.py:82-85 -> orchestrator.py:347-354 -> store.py:46-54
ListEnter(status, limit) ==
  /\ cpu = NoCpu
  /\ listing.pc = "idle"
  /\ listing' = [pc |-> "listed", status |-> status, limit |-> limit,
                 result |-> list_all(status, limit)]
  /\ cpu' = ListCo
  /\ UNCHANGED <<heap, executions, lock, xpc, run, poll, held, del, committed>>

\* routers/orchestration.py:82 : the handler returns the list
ListReturn ==
  /\ cpu = ListCo
  /\ listing.pc = "listed"
  /\ listing' = NoListing
  /\ cpu' = NoCpu
  /\ UNCHANGED <<heap, executions, lock, xpc, run, poll, held, del, committed>>

\* ---- the store contents list_all is applied to
\* the value of the record of a runner that has not started, is suspended
\* in its first sleep, or has returned
Stages == {"queued", "running", "completed"}

RECURSIVE SumTokens(_)
SumTokens(n) == IF n = 0 THEN 0 ELSE task_defs[n].tokens + SumTokens(n - 1)

\* the record after the tasks before position i have run to their end
RECURSIVE TasksDone(_, _)
TasksDone(e, i) ==
  IF i = 0 THEN e
  ELSE CompleteTask(AdvanceStep(BeginTask(TasksDone(e, i - 1), i - 1),
                                i - 1, steps - 1), i - 1)

RunAt(o, id, stage) ==
  CASE stage = "queued" ->
         [NoRun EXCEPT !.pc = "ready", !.execution_id = id]
    [] stage = "running" ->
         [NoRun EXCEPT !.pc = "sleeping", !.execution_id = id,
                       !.execution = o]
    [] stage = "completed" ->
         [NoRun EXCEPT !.pc = "done", !.execution_id = id, !.execution = o,
                       !.i = Len(task_defs) - 1, !.step = steps - 1,
                       !.total_tokens = SumTokens(Len(task_defs)),
                       !.completed_count = Len(task_defs),
                       !.generated = 1]

RecordAt(o, id, now, stage) ==
  LET e == NewExecution(id, now, task_defs)
  IN CASE stage = "queued" -> e
       [] stage = "running" -> BeginTask(StartExecution(e), 0)
       [] stage = "completed" ->
            FinishExecution(
              AttachResults(TasksDone(StartExecution(e), Len(task_defs)),
                            RunAt(o, id, stage)))

\* datetime.utcnow() (orchestrator.py:103) is the wall clock: two
\* records can carry the same created_at, or a later one an earlier time
Times == 1..MaxExec

\* a store with any number of records, each at any stage and created at any
\* time, and no handler running
InitList ==
  \E n \in 0..MaxExec :
    \E stage \in [1..n -> Stages], now \in [1..n -> Times] :
      /\ heap = [o \in 1..n |-> RecordAt(o, o, now[o], stage[o])]
      /\ executions = [id \in IDs |-> IF id <= n THEN id ELSE NoRef]
      /\ committed = [id \in IDs |->
                        IF id <= n
                          THEN <<RecordAt(id, id, now[id], stage[id])>>
                          ELSE <<>>]
      /\ xpc = [o \in Objs |-> IF o <= n THEN "returned" ELSE "new"]
      /\ run = [o \in Objs |->
                  IF o <= n THEN RunAt(o, o, stage[o]) ELSE NoRun]
      /\ lock = NoCpu
      /\ cpu = NoCpu
      /\ poll = [p \in Pollers |-> NoPoll]
      /\ held = [p \in Pollers |-> <<>>]
      /\ del = [pc |-> "idle", id |-> 0]
      /\ listing = NoListing

\* ---------------------------------------------------------- specifications
\* what follows the choice of the identifier in every specification
Serve ==
  \/ \E o \in Objs : CreateEnter(o)
  \/ \E o \in Objs : CreateWrite(o)
  \/ \E o \in Objs : ExecuteSpawn(o)
  \/ \E o \in Objs : Runner(o)
  \/ \E p \in Pollers, id \in IDs : GetStatus(p, id)
  \/ \E p \in Pollers : StatusReturn(p)

\* the service as wired: POST /execute, the runners, GET /status; the
\* identifiers are taken as collision free
Next ==
  \/ \E o \in Objs, t \in TaskTypes : ExecuteBuild(o, NewId, t)
  \/ Serve

Spec == Init /\ [][Next]_vars

\* the service with an in-process caller that keeps the object get returns
NextReader ==
  \/ Next
  \/ \E p \in Pollers : KeepResult(p)

SpecReader == Init /\ [][NextReader]_vars

\* the service with a caller of ExecutionStore.delete, at any time
NextDelete ==
  \/ Next
  \/ \E id \in IDs : DeleteEnter(id)
  \/ DeleteWrite

SpecDelete == Init /\ [][NextDelete]_vars

\* the service when uuid4().hex[:12] may repeat an identifier
NextCollide ==
  \/ \E o \in Objs, id \in IDs, t \in TaskTypes : ExecuteBuild(o, id, t)
  \/ Serve

SpecCollide == Init /\ [][NextCollide]_vars

\* the service when a write of the store can fail
NextWriteFail ==
  \/ Next
  \/ \E o \in Objs : UpdateFail(o)

SpecWriteFail == Init /\ [][NextWriteFail]_vars

\* list_all applied to every store content, filter and limit
NextList ==
  \/ \E status \in StatusFilters, limit \in Limits : ListEnter(status, limit)
  \/ ListReturn

SpecList == InitList /\ [][NextList]_vars

\* the loop never stops while a coroutine holds it, and asyncio serves its
\* ready callbacks first in first out: a coroutine that is ready to run is
\* run (orchestrator.py:112, 160)
Handlers ==
  \/ \E o \in Objs : CreateEnter(o) \/ CreateWrite(o) \/ ExecuteSpawn(o)
  \/ \E p \in Pollers : StatusReturn(p)

FairSpec ==
  /\ Spec
  /\ SF_vars(\E o \in Objs : Runner(o))
  /\ WF_vars(Handlers)

\* ------------------------------------------------------------- properties
Tasks(id) == Read(id).tasks
RunningTasks(e) == {k \in 1..Len(e.tasks) : e.tasks[k].status = RUNNING}

\* the lock is free whenever a coroutine reaches `async with self._lock`,
\* so the suspending path of asyncio.Lock.acquire is never taken
LockNeverContended ==
  /\ \A o \in Objs :
       cpu = ExecCo(o) /\ xpc[o] = "create" => lock = NoCpu
  /\ \A o \in Objs :
       cpu = RunCo(o) /\ ~run[o].in_lock => lock = NoCpu
  /\ cpu = NoCpu => lock = NoCpu

\* C1: overall_progress of an execution never decreases from one state of
\* its record to the next (so between any two reads), is always within
\* 0..100, and is 100 once the status is terminal.
C1_ProgressMonotonic ==
  /\ [][\A id \in IDs :
          (Present(id) /\ Present(id)') =>
            Read(id).overall_progress <= Read(id)'.overall_progress]_vars
  /\ [](\A id \in IDs :
          Present(id) =>
            /\ Read(id).overall_progress \in 0..100
            /\ (Read(id).status \in Terminal
                  => Read(id).overall_progress = 100))

\* one execution has finished at 100 while a poller can read it
C1_Witness ==
  \E id \in IDs :
    /\ Present(id) /\ cpu = NoCpu
    /\ Read(id).status \in Terminal
    /\ Read(id).overall_progress = 100
    /\ committed[id] = <<Read(id)>>

\* C2: every record in the store has at most one task Running.
C2_AtMostOneRunning ==
  \A id \in IDs : Present(id) => Cardinality(RunningTasks(Read(id))) <= 1

\* a poller can read a record whose third task is the one Running
C2_Witness ==
  \E id \in IDs :
    /\ Present(id) /\ cpu = NoCpu
    /\ RunningTasks(Read(id)) = {3}

\* C3: tasks run in list order: when task k is Running every earlier task
\* is Completed or Failed and every later task is Pending, and a task that
\* has left Pending has no earlier task Pending or Running.
C3_TasksInOrder ==
  \A id \in IDs : Present(id) =>
    \A k \in 1..Len(Tasks(id)) :
      /\ Tasks(id)[k].status = RUNNING =>
           /\ \A j \in 1..(k-1) : Tasks(id)[j].status \in {COMPLETED, FAILED}
           /\ \A j \in (k+1)..Len(Tasks(id)) : Tasks(id)[j].status = PENDING
      /\ Tasks(id)[k].status # PENDING =>
           \A j \in 1..(k-1) : Tasks(id)[j].status \notin {PENDING, RUNNING}

\* the fourth task is Running, after three Completed and before one Pending
C3_Witness ==
  \E id \in IDs :
    /\ Present(id)
    /\ Tasks(id)[4].status = RUNNING
    /\ Tasks(id)[4].progress = 40
    /\ \A j \in 1..3 : Tasks(id)[j].status = COMPLETED
    /\ Tasks(id)[5].status = PENDING

\* C4: once the record of an execution is terminal, its status, artifacts
\* and summary stay as they are in every later state, and once the terminal
\* state is committed the runner of that execution never enters an update
\* again and never changes the object again.
C4_TerminalSticky ==
  [][\A id \in IDs :
       /\ (Present(id) /\ Read(id).status \in Terminal) =>
            /\ Present(id)'
            /\ Read(id)'.status = Read(id).status
            /\ Read(id)'.artifacts = Read(id).artifacts
            /\ Read(id)'.summary = Read(id).summary
       /\ (committed[id] # <<>> /\ committed[id][1].status \in Terminal) =>
            /\ committed'[id] = committed[id]
            /\ \A o \in Objs :
                 run[o].execution_id = id =>
                   /\ ~run'[o].in_lock
                   /\ run'[o].pc \in {"update_final", "done"}
                   /\ heap'[run[o].execution] = heap[run[o].execution]]_vars

\* an execution is terminal and committed while another one is mid-run
C4_Witness ==
  \E id \in IDs, o \in Objs :
    /\ committed[id] # <<>> /\ committed[id][1].status \in Terminal
    /\ Len(committed[id][1].artifacts) = 2
    /\ run[o].execution_id # id
    /\ run[o].pc = "update_step"

\* C5: the status of an execution appears as Queued and then only moves
\* Queued -> Running -> Completed | Partial | Failed, one arrow at a time.
C5_StatusPath ==
  [][\A id \in IDs :
       /\ (~Present(id) /\ Present(id)') => Read(id)'.status = QUEUED
       /\ (Present(id) /\ Present(id)') =>
            \/ Read(id)'.status = Read(id).status
            \/ Read(id).status = QUEUED /\ Read(id)'.status = RUNNING
            \/ Read(id).status = RUNNING /\ Read(id)'.status \in Terminal]_vars

\* an execution went through Running (started_at is set) and is Completed
C5_Witness ==
  \E id \in IDs :
    /\ Present(id)
    /\ Read(id).status = COMPLETED
    /\ Read(id).started_at /\ Read(id).completed_at

RunnerCommitted(o) ==
  /\ run[o].pc = "done"
  /\ committed[run[o].execution_id] # <<>>
  /\ committed[run[o].execution_id][1].status \in Terminal

Started(o) == run[o].pc \notin {"none", "ready"}

\* C6: under fair scheduling every runner that has started (it has fetched
\* its execution) eventually returns with a terminal status committed,
\* whatever the other executions and the pollers do: a started runner stays
\* started, and no runner is started and unfinished from some point on.
C6_RunnerTerminates ==
  /\ [][\A o \in Objs : Started(o) => Started(o)']_vars
  /\ \A o \in Objs : []<>(~Started(o) \/ RunnerCommitted(o))

\* one runner has finished while another execution is still mid-run
C6_Witness ==
  \E o \in Objs, o2 \in Objs :
    /\ RunnerCommitted(o)
    /\ run[o2].pc = "sleeping"
    /\ heap[run[o2].execution].status = RUNNING

\* C7: the record a caller got from get / get_status keeps the value it had
\* when it was returned, whatever the runner writes afterwards.
C7_SnapshotUnchanged ==
  \A p \in Pollers :
    held[p] # <<>> => heap[held[p][1].ref] = held[p][1].snap

\* C8: whenever a reader can run (the loop is free, or a get_status handler
\* has it) the record it gets for an id is the value passed to the last
\* completed create/update for that id.
C8_ReaderSeesCommitted ==
  /\ cpu = NoCpu =>
       \A id \in IDs : Present(id) => committed[id] = <<Read(id)>>
  /\ \A p \in Pollers :
       (poll[p].pc = "got" /\ poll[p].result # NoRef) =>
         committed[heap[poll[p].result].execution_id] = <<heap[poll[p].result]>>

\* a get_status handler holds a record of an execution in its third task
C8_Witness ==
  \E p \in Pollers :
    /\ cpu = PollCo(p)
    /\ poll[p].pc = "got" /\ poll[p].result # NoRef
    /\ heap[poll[p].result].status = RUNNING
    /\ heap[poll[p].result].overall_progress = 52

\* the coroutines inside `async with self._lock` of create, update, delete
InWrite ==
  {ExecCo(o) : o \in {x \in Objs : xpc[x] = "create_locked"}}
    \cup {RunCo(o) : o \in {x \in Objs : run[x].in_lock}}
    \cup (IF del.pc = "locked" THEN {DelCo} ELSE {})

\* C9: at most one coroutine is inside the write section of create, update
\* or delete at any time.
C9_WritesSerialized == Cardinality(InWrite) <= 1

\* an update is in its write section while another runner is suspended
C9_Witness ==
  \E o \in Objs, o2 \in Objs :
    /\ InWrite = {RunCo(o)} /\ lock = RunCo(o)
    /\ o2 # o /\ run[o2].pc = "sleeping"

\* C10: a create whose execution_id is already in the store fails with
\* DuplicateKey (execute does not go on to spawn a runner) and leaves the
\* stored record as it is.
C10_CreateRejectsDuplicate ==
  [][\A o \in Objs :
       (/\ xpc[o] = "create_locked" /\ xpc'[o] # "create_locked"
        /\ Present(heap[o].execution_id))
         => /\ xpc'[o] = "DuplicateKey"
            /\ executions'[heap[o].execution_id]
                 = executions[heap[o].execution_id]]_vars

\* C11: an update of the runner for an execution_id that is not in the
\* store (removed by delete while the run is under way) fails with NotFound
\* and leaves the id absent: it does not insert a record.
C11_UpdateRejectsAbsent ==
  [][\A o \in Objs :
       (/\ run[o].in_lock /\ ~run'[o].in_lock
        /\ ~Present(run[o].execution_id))
         => /\ run'[o].pc = "NotFound"
            /\ executions'[run[o].execution_id] = NoRef]_vars

\* C12: when execute returns, for either kind of task_type, the record is
\* Queued with the five default tasks all Pending, overall_progress 0 and
\* an execution_id that is not empty; get_status already finds it; and the
\* runner is scheduled but has not run.
C12_ExecuteReturnsQueued ==
  [][\A o \in Objs :
       (xpc[o] = "spawn" /\ xpc'[o] = "returned") =>
         LET e == heap'[o]
         IN /\ e.status = QUEUED
            /\ Len(e.tasks) = Len(_get_rfx_tasks)
            /\ \A k \in 1..Len(e.tasks) :
                 /\ e.tasks[k].status = PENDING
                 /\ e.tasks[k].task_id = _get_rfx_tasks[k].task_id
            /\ e.overall_progress = 0
            /\ e.execution_id \in IDs
            /\ executions'[e.execution_id] = o
            /\ committed'[e.execution_id] = <<e>>
            /\ run'[o].pc = "ready"
            /\ run'[o].execution_id = e.execution_id]_vars

\* the second execute call has returned and its runner has not run, while
\* the first execution is Running
C12_Witness ==
  /\ cpu = NoCpu
  /\ Len(heap) = 2
  /\ xpc[2] = "returned" /\ run[2].pc = "ready"
  /\ StoreGet(heap[2].execution_id) = 2
  /\ heap[2].status = QUEUED
  /\ heap[1].status = RUNNING

\* C13: a record whose status is Completed has every task Completed with
\* progress 100, overall_progress 100, no current_task, completed_at set,
\* exactly 2 artifacts, and a summary with tasks_completed equal to the
\* five tasks, tasks_failed 0 and tasks_total = tasks_completed +
\* tasks_failed.
C13_CompletedShape ==
  \A o \in 1..Len(heap) :
    heap[o].status = COMPLETED =>
      /\ \A k \in 1..Len(heap[o].tasks) :
           /\ heap[o].tasks[k].status = COMPLETED
           /\ heap[o].tasks[k].progress = 100
      /\ heap[o].overall_progress = 100
      /\ heap[o].current_task = NoTask
      /\ heap[o].completed_at
      /\ Len(heap[o].artifacts) = 2
      /\ Len(heap[o].summary) = 1
      /\ heap[o].summary[1].tasks_completed = Len(_get_rfx_tasks)
      /\ heap[o].summary[1].tasks_failed = 0
      /\ heap[o].summary[1].tasks_total =
           heap[o].summary[1].tasks_completed + heap[o].summary[1].tasks_failed

\* a poller can read a Completed record with the tokens of all five tasks
C13_Witness ==
  \E id \in IDs :
    /\ Present(id) /\ cpu = NoCpu
    /\ Read(id).status = COMPLETED
    /\ committed[id] = <<Read(id)>>
    /\ Read(id).summary[1].total_tokens = 11300
    /\ Read(id).tasks[5].completed_at

\* a reader can run: the loop is free or a get_status handler has it
ReaderCanRun == cpu = NoCpu \/ \E p \in Pollers : cpu = PollCo(p)

\* C14: in every state a reader can see, and in every committed value, a
\* record that is not terminal has no artifacts and no summary, and a
\* terminal record has both (the two artifacts and the summary): they are
\* populated in the commit that makes the status terminal, never one
\* without the other.
C14_ResultsWithTerminal ==
  /\ ReaderCanRun =>
       \A id \in IDs : Present(id) =>
         IF Read(id).status \in Terminal
           THEN Len(Read(id).artifacts) = 2 /\ Read(id).summary # <<>>
           ELSE Read(id).artifacts = <<>> /\ Read(id).summary = <<>>
  /\ \A id \in IDs : committed[id] # <<>> =>
       IF committed[id][1].status \in Terminal
         THEN Len(committed[id][1].artifacts) = 2
                /\ committed[id][1].summary # <<>>
         ELSE committed[id][1].artifacts = <<>>
                /\ committed[id][1].summary = <<>>

\* a get_status handler reads a Running record before the last step of its
\* last task, still without results, and another record is terminal with both
C14_Witness ==
  \E p \in Pollers, id \in IDs :
    /\ cpu = PollCo(p) /\ poll[p].pc = "got" /\ poll[p].result # NoRef
    /\ heap[poll[p].result].status = RUNNING
    /\ heap[poll[p].result].overall_progress = 96
    /\ heap[poll[p].result].artifacts = <<>>
    /\ Present(id) /\ Read(id).status \in Terminal
    /\ Len(Read(id).artifacts) = 2 /\ Read(id).summary # <<>>

\* the records list_all may return for this filter
Matching(status) ==
  {executions[id] : id \in {x \in IDs : Present(x) /\
       (status = NoStatus \/ Read(x).status = status)}}

\* C15: for every store content, status filter and limit in 1..100,
\* list_all returns records of the store only, each at most once; with a
\* filter only records of that status, without one any record; as many as
\* there are such records up to the limit, never more than the limit; in
\* order of created_at, newest first.
C15_ListFilteredSortedLimited ==
  listing.pc = "listed" =>
    LET res == listing.result
        all == Matching(listing.status)
    IN /\ \A k \in 1..Len(res) : res[k] \in all
       /\ \A j, k \in 1..Len(res) : j # k => res[j] # res[k]
       /\ Len(res) <= listing.limit
       /\ Len(res) = IF listing.limit < Cardinality(all)
                       THEN listing.limit ELSE Cardinality(all)
       /\ \A k \in 1..(Len(res) - 1) :
            heap[res[k]].created_at >= heap[res[k + 1]].created_at

\* a store with an older Running record, a newer Running one and nothing
\* else, listed with status=running and limit=1: the newer one is returned
C15_Witness ==
  /\ listing.pc = "listed"
  /\ listing.status = RUNNING /\ listing.limit = 1
  /\ Len(heap) = 2
  /\ heap[1].status = RUNNING /\ heap[2].status = RUNNING
  /\ heap[1].created_at < heap[2].created_at
  /\ listing.result = <<2>>

\* the execute call that was given this id has returned
Returned(id) ==
  \E o \in 1..Len(heap) : heap[o].execution_id = id /\ xpc[o] = "returned"

\* C16: get_status for an id no execute call has returned gives not-found
\* (None, a 404), and for an id an execute call has returned it gives a
\* record with that execution_id, Queued included, from the return of
\* execute onward.
C16_StatusFoundIffCreated ==
  /\ \A p \in Pollers :
       poll[p].pc = "got" =>
         IF Returned(poll[p].id)
           THEN /\ poll[p].result # NoRef
                /\ heap[poll[p].result].execution_id = poll[p].id
           ELSE poll[p].result = NoRef
  /\ cpu = NoCpu =>
       \A id \in IDs : Returned(id) <=> StoreGet(id) # NoRef

\* a get_status handler holds the Queued record of the only execution, and
\* the other id is unknown
C16_Witness ==
  \E p \in Pollers :
    /\ cpu = PollCo(p) /\ poll[p].pc = "got"
    /\ poll[p].result # NoRef
    /\ heap[poll[p].result].status = QUEUED
    /\ heap[poll[p].result].execution_id = poll[p].id
    /\ \E id \in IDs : ~Returned(id) /\ StoreGet(id) = NoRef

\* the fields of a task that are set when the list is built
TaskIdentity(t) ==
  [task_id |-> t.task_id, task_type |-> t.task_type,
   description |-> t.description]

\* C17: no step changes the execution_id or the created_at of an object,
\* nor the length and order of its task list, nor the task_id, task_type
\* and description of a task; the same holds of the record stored under
\* an id.
C17_ImmutableFields ==
  [][/\ \A o \in 1..Len(heap) :
          /\ heap'[o].execution_id = heap[o].execution_id
          /\ heap'[o].created_at = heap[o].created_at
          /\ Len(heap'[o].tasks) = Len(heap[o].tasks)
          /\ \A k \in 1..Len(heap[o].tasks) :
               TaskIdentity(heap'[o].tasks[k]) = TaskIdentity(heap[o].tasks[k])
     /\ \A id \in IDs :
          (Present(id) /\ Present(id)') =>
            /\ Read(id)'.execution_id = id
            /\ Read(id)'.created_at = Read(id).created_at
            /\ [k \in 1..Len(Tasks(id)') |-> TaskIdentity(Tasks(id)'[k])]
                 = [k \in 1..Len(Tasks(id)) |-> TaskIdentity(Tasks(id)[k])]
    ]_vars

\* an execution has run all its tasks and still has the identifier, the
\* creation time and the task list it was built with
C17_Witness ==
  \E id \in IDs :
    /\ Present(id)
    /\ Read(id).status = COMPLETED
    /\ Read(id).execution_id = id
    /\ Read(id).created_at = executions[id]
    /\ [k \in 1..Len(Tasks(id)) |-> TaskIdentity(Tasks(id)[k])]
         = [k \in 1..Len(_get_rfx_tasks) |-> TaskIdentity(_get_rfx_tasks[k])]

\* this step is a step of the runner spawned by execute call o
RunnerStep(o) == cpu = RunCo(o) \/ cpu' = RunCo(o)

\* C18: after its creation the record of an execution is written only by
\* the runner spawned by the execute call that created it: an object
\* changes only in a step of its own runner, a committed value is replaced
\* only by that runner's update, and a step of a runner changes no other
\* object, store entry or committed value.
C18_SingleWriter ==
  [][/\ \A x \in 1..Len(heap) :
          heap'[x] # heap[x] => RunnerStep(x) /\ run'[x].execution = x
     /\ \A id \in IDs :
          (committed[id] # <<>> /\ committed'[id] # committed[id]) =>
            \E o \in 1..Len(heap) :
              /\ cpu = RunCo(o) /\ run[o].in_lock
              /\ run[o].execution = o
              /\ heap[o].execution_id = id
     /\ \A o \in 1..Len(heap) :
          RunnerStep(o) =>
            /\ \A x \in 1..Len(heap) : x # o => heap'[x] = heap[x]
            /\ \A id \in IDs :
                 id # heap[o].execution_id =>
                   /\ executions'[id] = executions[id]
                   /\ committed'[id] = committed[id]]_vars

\* the second runner is inside an update of its own record, which is
\* ahead of the first execution's record
C18_Witness ==
  /\ Len(heap) = 2
  /\ cpu = RunCo(2) /\ run[2].in_lock /\ run[2].execution = 2
  /\ heap[2].overall_progress = 40
  /\ heap[1].status = RUNNING /\ heap[1].overall_progress = 20
  /\ committed[heap[1].execution_id] = <<heap[1]>>

\* C19: a runner whose update has failed has ended with its execution
\* marked Failed and the cause recorded in errors, in the object and in
\* the store, so the execution is not left Queued or Running.
C19_FailedOnWriteFailure ==
  \A o \in Objs :
    run[o].pc = "raised" =>
      /\ heap[run[o].execution].status = FAILED
      /\ heap[run[o].execution].errors # <<>>
      /\ Read(run[o].execution_id).status = FAILED

\* C20: in every committed value of a record in which the task at 0-based
\* position i of its N tasks is Running with progress p, overall_progress
\* is floor((100 * i + p) / N); the object itself satisfies the same
\* whenever a reader can run.
C20_OverallProgressFormula ==
  /\ \A id \in IDs :
       committed[id] # <<>> =>
         LET e == committed[id][1]
         IN \A k \in RunningTasks(e) :
              e.overall_progress =
                (100 * (k - 1) + e.tasks[k].progress) \div Len(e.tasks)
  /\ ReaderCanRun =>
       \A id \in IDs : Present(id) =>
         \A k \in RunningTasks(Read(id)) :
           Read(id).overall_progress =
             (100 * (k - 1) + Tasks(id)[k].progress) \div Len(Tasks(id))

\* the runner has committed the third step of the fourth task: i = 3,
\* p = 60, overall_progress = floor(360 / 5) = 72
C20_Witness ==
  \E id \in IDs :
    /\ committed[id] # <<>>
    /\ RunningTasks(committed[id][1]) = {4}
    /\ committed[id][1].tasks[4].progress = 60
    /\ committed[id][1].overall_progress = 72

\* C21: in every committed value of a record, current_task is the task_id
\* of the Running task when there is one, and is empty when no task is
\* Running (before the first task, between two tasks, after the last).
C21_CurrentTaskIsRunning ==
  \A id \in IDs :
    committed[id] # <<>> =>
      LET e == committed[id][1]
      IN IF RunningTasks(e) = {}
           THEN e.current_task = NoTask
           ELSE \E k \in RunningTasks(e) : e.current_task = e.tasks[k].task_id

\* the values the progress of a task takes: 0 and the `steps` equal
\* increments up to 100
ProgressValues == {(s * 100) \div steps : s \in 0..steps}

\* C22: the progress of a task is 0 while it is Pending, one of 0, 20, 40,
\* 60, 80, 100 while it is Running and 100 once it is Completed; a step
\* never lowers it and raises it by exactly one increment of 100 / 5; and
\* it is raised only when its current value is the one already committed
\* through the store.
C22_TaskProgressSteps ==
  /\ [](\A o \in 1..Len(heap) : \A k \in 1..Len(heap[o].tasks) :
          /\ heap[o].tasks[k].status = PENDING => heap[o].tasks[k].progress = 0
          /\ heap[o].tasks[k].status = RUNNING =>
               heap[o].tasks[k].progress \in ProgressValues
          /\ heap[o].tasks[k].status = COMPLETED =>
               heap[o].tasks[k].progress = 100)
  /\ [][\A o \in 1..Len(heap) : \A k \in 1..Len(heap[o].tasks) :
          LET p == heap[o].tasks[k].progress
              c == committed[heap[o].execution_id]
          IN \/ heap'[o].tasks[k].progress = p
             \/ /\ heap'[o].tasks[k].progress = p + (100 \div steps)
                /\ heap[o].tasks[k].status = RUNNING
                /\ c # <<>> /\ c[1].tasks[k].progress = p]_vars

\* the third increment of the second task is committed: the first task is
\* Completed at 100 and the third is Pending at 0
C22_Witness ==
  \E id \in IDs :
    /\ committed[id] # <<>> /\ Present(id)
    /\ committed[id] = <<Read(id)>>
    /\ Tasks(id)[1].status = COMPLETED /\ Tasks(id)[1].progress = 100
    /\ Tasks(id)[2].status = RUNNING /\ Tasks(id)[2].progress = 60
    /\ Tasks(id)[3].status = PENDING /\ Tasks(id)[3].progress = 0

\* every task of the record is Completed
AllCompleted(e) == \A k \in 1..Len(e.tasks) : e.tasks[k].status = COMPLETED

\* C23: a runner calls _generate_artifacts at most once, and exactly once
\* by the time it returns with its execution; the call is made only when
\* every task is Completed in the object and in the committed record (no
\* task Pending or Running); and the step that makes the call writes
\* nothing to the store.
C23_GeneratorOnceAfterTasks ==
  /\ [](\A o \in Objs :
          /\ run[o].generated <= 1
          /\ (run[o].pc = "done" /\ run[o].execution # NoRef) =>
               run[o].generated = 1
          /\ run[o].generated = 1 =>
               /\ AllCompleted(heap[run[o].execution])
               /\ Len(heap[run[o].execution].artifacts) = 2)
  /\ [][\A o \in Objs :
          run'[o].generated # run[o].generated =>
            LET c == committed[run[o].execution_id]
            IN /\ AllCompleted(heap[run[o].execution])
               /\ c # <<>> /\ AllCompleted(c[1])
               /\ c[1].artifacts = <<>>
               /\ executions' = executions
               /\ committed' = committed]_vars

\* a runner has made its one call and is inside the final update, whose
\* write has not happened: the committed record has no artifacts yet
C23_Witness ==
  \E o \in Objs :
    /\ run[o].generated = 1
    /\ run[o].pc = "update_final" /\ run[o].in_lock
    /\ Len(heap[run[o].execution].artifacts) = 2
    /\ committed[run[o].execution_id][1].artifacts = <<>>
    /\ AllCompleted(committed[run[o].execution_id][1])

\* C24: in every state no execution is Partial or Failed, no task is Failed
\* or Skipped or has an error, the errors list of every execution is empty
\* and failed_count is 0: the only terminal status reached is Completed.
C24_TasksAlwaysSucceed ==
  /\ \A o \in 1..Len(heap) :
       /\ heap[o].status \in {QUEUED, RUNNING, COMPLETED}
       /\ heap[o].errors = <<>>
       /\ \A k \in 1..Len(heap[o].tasks) :
            /\ heap[o].tasks[k].status \in {PENDING, RUNNING, COMPLETED}
            /\ ~heap[o].tasks[k].error
       /\ heap[o].summary # <<>> => heap[o].summary[1].tasks_failed = 0
  /\ \A o \in Objs : run[o].failed_count = 0
  /\ \A id \in IDs :
       (committed[id] # <<>> /\ committed[id][1].status \in Terminal) =>
         committed[id][1].status = COMPLETED

\* both executions have reached a terminal status, Completed, without an
\* error
C24_Witness ==
  /\ Len(heap) = 2
  /\ \A o \in 1..2 :
       /\ heap[o].status = COMPLETED
       /\ heap[o].errors = <<>>
       /\ run[o].pc = "done"
       /\ run[o].completed_count = Len(heap[o].tasks)

====
